---- MODULE Spec2Model ----
(***************************************************************************)
(* A model of yd.py: the YouTube video info and download tool.             *)
(*                                                                         *)
(* The interface thread (YouTubeThumbnailGUI) owns the widgets and the     *)
(* held metadata; each click that passes validation starts one QThread     *)
(* worker (VideoInfoExtractor, ThumbnailDownloader, VideoDownloader).  A   *)
(* worker talks to the interface only by emitting signals, which Qt posts  *)
(* to the interface thread's event queue and delivers in posting order.    *)
(*                                                                         *)
(* Python text is modelled as a sequence of one-character strings, so that *)
(* searching, stripping and lower-casing are computed and not assumed.     *)
(***************************************************************************)
EXTENDS Integers, Sequences, FiniteSets, TLC

\* ------------------------------------------------------------------ text

\* Python's None where the other values are text (sequences).
None == <<"None">>

\* Python's None where the other values are records (dicts).
NoneRec == [py |-> "None"]

LowerLetters == <<"a", "b", "c", "d", "e", "f", "g", "h", "i", "j", "k", "l", "m", "n", "o", "p", "q", "r", "s", "t", "u", "v", "w", "x", "y", "z">>

UpperLetters == <<"A", "B", "C", "D", "E", "F", "G", "H", "I", "J", "K", "L", "M", "N", "O", "P", "Q", "R", "S", "T", "U", "V", "W", "X", "Y", "Z">>

Digits == <<"0", "1", "2", "3", "4", "5", "6", "7", "8", "9">>

Range(s) == {s[i] : i \in 1..Len(s)}

\* str.lower() on one character.
LowerChar(c) ==
    IF \E i \in 1..26 : UpperLetters[i] = c
    THEN LowerLetters[CHOOSE i \in 1..26 : UpperLetters[i] = c]
    ELSE c

\* str.lower()
Lower(s) == [i \in 1..Len(s) |-> LowerChar(s[i])]

\* lit occurs in s starting at index i
IsAt(s, i, lit) ==
    /\ i >= 1
    /\ i + Len(lit) - 1 <= Len(s)
    /\ \A k \in 1..Len(lit) : s[i + k - 1] = lit[k]

\* Python's `sub in s` on text
Contains(s, sub) == \E i \in 1..(Len(s) + 1) : IsAt(s, i, sub)

Whitespace == {" ", "\t", "\n", "\r"}

\* str.strip(): drop the leading and trailing whitespace
Strip(s) ==
    LET keep == {i \in 1..Len(s) : s[i] \notin Whitespace}
    IN  IF keep = {} THEN << >>
        ELSE LET lo == CHOOSE i \in keep : \A j \in keep : i <= j
                 hi == CHOOSE i \in keep : \A j \in keep : i >= j
             IN  SubSeq(s, lo, hi)

\* ------------------------------------------------- the URL validator

\* The character class [a-zA-Z0-9_-] of both patterns.
IdChars == Range(LowerLetters) \cup Range(UpperLetters) \cup Range(Digits) \cup {"_", "-"}

\* The repetition count {11} of both patterns.
IdLen == 11

\* s has n characters of the class starting at index i
IdRunAt(s, i, n) ==
    /\ i + n - 1 <= Len(s)
    /\ \A k \in 0..(n - 1) : s[i + k] \in IdChars

\* The alternatives of the first pattern's non-capturing group.
Pattern1Prefixes == {<<"y", "o", "u", "t", "u", "b", "e", ".", "c", "o", "m", "/", "w", "a", "t", "c", "h", "?", "v", "=">>, <<"y", "o", "u", "t", "u", ".", "b", "e", "/">>, <<"y", "o", "u", "t", "u", "b", "e", ".", "c", "o", "m", "/", "e", "m", "b", "e", "d", "/">>}

\* re.search of (?:youtube\.com/watch\?v=|youtu\.be/|youtube\.com/embed/)([a-zA-Z0-9_-]{11})
SearchPattern1(url) ==
    \E i \in 1..Len(url) : \E lit \in Pattern1Prefixes :
        IsAt(url, i, lit) /\ IdRunAt(url, i + Len(lit), IdLen)

\* re.search of youtube\.com/watch\?.*v=([a-zA-Z0-9_-]{11}); `.` matches all but a newline
SearchPattern2(url) ==
    LET head == <<"y", "o", "u", "t", "u", "b", "e", ".", "c", "o", "m", "/", "w", "a", "t", "c", "h", "?">>
    IN  \E i \in 1..Len(url) :
            /\ IsAt(url, i, head)
            /\ \E j \in (i + Len(head))..Len(url) :
                  /\ \A k \in (i + Len(head))..(j - 1) : url[k] # "\n"
                  /\ IsAt(url, j, <<"v", "=">>)
                  /\ IdRunAt(url, j + 2, IdLen)

\* The validator with its second, looser pattern left out.
validate_first_pattern_only(url) == SearchPattern1(url)

\* YouTubeThumbnailGUI.validate_youtube_url
validate_youtube_url(url) == SearchPattern1(url) \/ SearchPattern2(url)

\* --------------------------------------------- the metadata record

\* dict.get(key, default)
Get(d, key, default) == IF key \in DOMAIN d THEN d[key] ELSE default

\* The record VideoInfoExtractor.run builds, with a wrong default for the duration.
video_data_wrong_duration_default(info, url) ==
    [title       |-> Get(info, "title", <<"U", "n", "k", "n", "o", "w", "n">>),
     view_count  |-> Get(info, "view_count", 0),
     like_count  |-> Get(info, "like_count", 0),
     duration    |-> Get(info, "duration", -1),
     upload_date |-> Get(info, "upload_date", <<"U", "n", "k", "n", "o", "w", "n">>),
     uploader    |-> Get(info, "uploader", <<"U", "n", "k", "n", "o", "w", "n">>),
     description |-> Get(info, "description", << >>),
     thumbnails  |-> Get(info, "thumbnails", << >>),
     comments    |-> Get(info, "comments", << >>),
     url         |-> url]

\* The record VideoInfoExtractor.run builds from the library's result.
video_data_of(info, url) ==
    [title       |-> Get(info, "title", <<"U", "n", "k", "n", "o", "w", "n">>),
     view_count  |-> Get(info, "view_count", 0),
     like_count  |-> Get(info, "like_count", 0),
     duration    |-> Get(info, "duration", 0),
     upload_date |-> Get(info, "upload_date", <<"U", "n", "k", "n", "o", "w", "n">>),
     uploader    |-> Get(info, "uploader", <<"U", "n", "k", "n", "o", "w", "n">>),
     description |-> Get(info, "description", << >>),
     thumbnails  |-> Get(info, "thumbnails", << >>),
     comments    |-> Get(info, "comments", << >>),
     url         |-> url]

\* ------------------------------------------------ thumbnail selection

\* quality_preferences.get(quality, ['maxresdefault'])
Preferences(quality) ==
    CASE quality = "maxres"   -> <<<<"m", "a", "x", "r", "e", "s", "d", "e", "f", "a", "u", "l", "t">>, <<"m", "a", "x", "r", "e", "s">>>>
      [] quality = "high"     -> <<<<"h", "q", "d", "e", "f", "a", "u", "l", "t">>, <<"h", "i", "g", "h">>>>
      [] quality = "medium"   -> <<<<"m", "q", "d", "e", "f", "a", "u", "l", "t">>, <<"m", "e", "d", "i", "u", "m">>>>
      [] quality = "standard" -> <<<<"s", "d", "d", "e", "f", "a", "u", "l", "t">>, <<"s", "t", "a", "n", "d", "a", "r", "d">>>>
      [] quality = "default"  -> <<<<"d", "e", "f", "a", "u", "l", "t">>>>
      [] OTHER                -> <<<<"m", "a", "x", "r", "e", "s", "d", "e", "f", "a", "u", "l", "t">>>>

\* x.get('width', 0)
Width(t) == Get(t, "width", 0)

\* x.get('height', 0)
Height(t) == Get(t, "height", 0)

\* (width, height) of a is greater than that of b, as Python compares tuples
KeyGreater(a, b) ==
    \/ Width(a) > Width(b)
    \/ Width(a) = Width(b) /\ Height(a) > Height(b)

KeyEqual(a, b) == Width(a) = Width(b) /\ Height(a) = Height(b)

\* sorted(thumbnails, key=(width, height), reverse=True): descending, and stable,
\* so candidates with equal keys keep their order in the input
SortedThumbnails(thumbnails) ==
    LET n == Len(thumbnails)
        pos(i) == 1 + Cardinality({j \in 1..n : KeyGreater(thumbnails[j], thumbnails[i])})
                    + Cardinality({j \in 1..(i - 1) : KeyEqual(thumbnails[j], thumbnails[i])})
    IN  [p \in 1..n |-> thumbnails[CHOOSE i \in 1..n : pos(i) = p]]

\* pref in str(thumb.get('id', '')).lower()
IdMatches(thumb, pref) == Contains(Lower(Get(thumb, "id", << >>)), pref)

\* The width test with the lower edge of the medium tier left out.
WidthRule_medium_above_640(quality, t) ==
    CASE quality = "high"     -> Width(t) >= 1280
      [] quality = "medium"   -> 640 < Width(t) /\ Width(t) < 1280
      [] quality = "standard" -> 480 <= Width(t) /\ Width(t) < 640
      [] OTHER                -> FALSE

\* The width test of the resolution step, per tier.
WidthRule(quality, t) ==
    CASE quality = "high"     -> Width(t) >= 1280
      [] quality = "medium"   -> 640 <= Width(t) /\ Width(t) < 1280
      [] quality = "standard" -> 480 <= Width(t) /\ Width(t) < 640
      [] OTHER                -> FALSE

Min(S) == CHOOSE x \in S : \A y \in S : x <= y

\* The selection with the two loops of the identifier step the other way round:
\* the first sorted candidate that matches any of the substrings.
select_candidate_first(thumbnails, quality) ==
    LET sorted == SortedThumbnails(thumbnails)
        prefs  == Preferences(quality)
        hits   == {h \in (1..Len(prefs)) \X (1..Len(sorted)) : IdMatches(sorted[h[2]], prefs[h[1]])}
        first  == CHOOSE h \in hits : \A g \in hits :
                      h[2] < g[2] \/ (h[2] = g[2] /\ h[1] <= g[1])
        byRule == {i \in 1..Len(sorted) : WidthRule(quality, sorted[i])}
    IN  IF hits # {} THEN sorted[first[2]].url
        ELSE IF quality = "maxres"
             THEN (IF Len(sorted) > 0 THEN sorted[1].url ELSE None)
        ELSE IF byRule # {} THEN sorted[Min(byRule)].url
        ELSE IF Len(sorted) > 0 THEN sorted[1].url ELSE None

\* The selection with its last line left out: nothing is returned when no rule matches.
select_without_last_resort(thumbnails, quality) ==
    LET sorted == SortedThumbnails(thumbnails)
        prefs  == Preferences(quality)
        hits   == {h \in (1..Len(prefs)) \X (1..Len(sorted)) : IdMatches(sorted[h[2]], prefs[h[1]])}
        first  == CHOOSE h \in hits : \A g \in hits :
                      h[1] < g[1] \/ (h[1] = g[1] /\ h[2] <= g[2])
        byRule == {i \in 1..Len(sorted) : WidthRule(quality, sorted[i])}
    IN  IF hits # {} THEN sorted[first[2]].url
        ELSE IF quality = "maxres"
             THEN (IF Len(sorted) > 0 THEN sorted[1].url ELSE None)
        ELSE IF byRule # {} THEN sorted[Min(byRule)].url
        ELSE None

\* ThumbnailDownloader.select_thumbnail_by_quality
select_thumbnail_by_quality(thumbnails, quality) ==
    LET sorted == SortedThumbnails(thumbnails)
        prefs  == Preferences(quality)
        \* for pref in preferences: for thumb in sorted_thumbnails
        hits   == {h \in (1..Len(prefs)) \X (1..Len(sorted)) : IdMatches(sorted[h[2]], prefs[h[1]])}
        first  == CHOOSE h \in hits : \A g \in hits :
                      h[1] < g[1] \/ (h[1] = g[1] /\ h[2] <= g[2])
        byRule == {i \in 1..Len(sorted) : WidthRule(quality, sorted[i])}
    IN  IF hits # {} THEN sorted[first[2]].url
        ELSE IF quality = "maxres"
             THEN (IF Len(sorted) > 0 THEN sorted[1].url ELSE None)
        ELSE IF byRule # {} THEN sorted[Min(byRule)].url
        ELSE IF Len(sorted) > 0 THEN sorted[1].url ELSE None

\* Python truthiness of a text-or-None value
Truthy(x) == x # None /\ x # << >>

\* --------------------------------------------------- file names

\* The characters of the class [<>:"/\\|?*] that re.sub replaces.
IllegalChars == {"<", ">", ":", "\"", "/", "\\", "|", "?", "*"}

\* The substitution made once only, as with count=1.
Sanitize_first_only(title) ==
    [i \in 1..Len(title) |->
        IF title[i] \in IllegalChars /\ \A j \in 1..(i - 1) : title[j] \notin IllegalChars
        THEN "_" ELSE title[i]]

\* re.sub(r'[<>:"/\\|?*]', '_', title)
Sanitize(title) == [i \in 1..Len(title) |-> IF title[i] \in IllegalChars THEN "_" ELSE title[i]]

\* The extension chosen from the response's content-type header.
Ext(content_type) ==
    IF Contains(content_type, <<"w", "e", "b", "p">>) THEN <<".", "w", "e", "b", "p">>
    ELSE IF Contains(content_type, <<"p", "n", "g">>) THEN <<".", "p", "n", "g">>
    ELSE <<".", "j", "p", "g">>

\* ------------------------------------------------------ the library

\* Thumbnail candidates as the extraction library supplies them: width, height and
\* id may be absent; the url is text.
T1 == [id |-> <<"m", "a", "x", "r", "e", "s", "d", "e", "f", "a", "u", "l", "t">>, width |-> 1920, height |-> 1080, url |-> <<"1">>]

T2 == [id |-> <<"m", "q", "d", "e", "f", "a", "u", "l", "t">>, width |-> 640, height |-> 480, url |-> <<"2">>]

T3 == [id |-> <<"0">>, width |-> 1280, height |-> 720, url |-> <<"3">>]

T4 == [id |-> <<"H", "Q", "D", "e", "f", "a", "u", "l", "t">>, url |-> <<"4">>]

T5 == [width |-> 480, height |-> 360, url |-> <<"5">>]

T6 == [id |-> <<"s", "d", "d", "e", "f", "a", "u", "l", "t">>, width |-> 640, height |-> 360, url |-> <<"6">>]

T7 == [id |-> <<"d", "e", "f", "a", "u", "l", "t">>, width |-> 120, height |-> 90, url |-> << >>]

T8 == [width |-> 640, height |-> 480, url |-> <<"8">>]

T9 == [id |-> <<"h", "i", "g", "h">>, width |-> 1920, height |-> 1080, url |-> <<"9">>]

T10 == [id |-> <<"M", "e", "d", "i", "u", "m", "_", "1">>, width |-> 1280, height |-> 720, url |-> <<"1", "0">>]

Candidates == {T1, T2, T3, T4, T5, T6, T7, T8, T9, T10}

\* A complete result of extract_info.
InfoFull ==
    [title       |-> <<"T", "e", "s", "t", ":", "V", "i", "d", "e", "o", "/", "N", "a", "m", "e", "?">>,
     view_count  |-> 1000,
     like_count  |-> 10,
     duration    |-> 212,
     upload_date |-> <<"2", "0", "0", "9", "1", "0", "2", "5">>,
     uploader    |-> <<"C", "h">>,
     description |-> <<"d">>,
     thumbnails  |-> <<T2, T1>>,
     comments    |-> <<[author |-> <<"a">>, text |-> <<"t">>, like_count |-> 1]>>]

InfoKeys == DOMAIN InfoFull

\* A result whose only thumbnail has an empty url.
InfoEmptyThumbUrl == [title |-> <<"t">>, thumbnails |-> <<T7>>]

\* A result with no title and no thumbnails.
InfoBare == [k \in {"view_count"} |-> 5]

LibInfos == {InfoFull, InfoEmptyThumbUrl, InfoBare}

\* str(e) of the exceptions the library and the transfer raise.
LibErrors == {"Video unavailable"}

\* What a call of the library or of the transfer does: it raises, or it returns.
Raises(e) == [raises |-> TRUE, error |-> e]

Returns(v) == [raises |-> FALSE, value |-> v]

ExtractOutcomes == {Raises(e) : e \in LibErrors} \cup {Returns(i) : i \in LibInfos}

ContentTypes == {<<"i", "m", "a", "g", "e", "/", "w", "e", "b", "p">>, <<"i", "m", "a", "g", "e", "/", "j", "p", "e", "g">>}

TransferOutcomes == {Raises(e) : e \in LibErrors} \cup {Returns(c) : c \in ContentTypes}

\* The progress events the download library hands to the hook.
HookBytes == [status |-> "downloading", total_bytes |-> 4, downloaded_bytes |-> 2]

HookText == ("status" :> "downloading") @@ ("_percent_str" :> <<" ", "5", "0", ".", "0", "%">>)

HookNoNumber == ("status" :> "downloading") @@ ("_percent_str" :> <<"N", "/", "A">>)

HookFinished == [status |-> "finished"]

HookEvents == {HookBytes, HookText, HookNoNumber, HookFinished}

\* The most progress events one download delivers.
MaxHookEvents == 1

\* -------------------------------------------------------- signals

Progress(kind) == [kind |-> kind, sig |-> "progress", ok |-> TRUE, payload |-> NoneRec]

Percent(n) == [kind |-> "video", sig |-> "progress_percent", ok |-> TRUE, payload |-> [percent |-> n]]

Finished(kind, ok, payload) == [kind |-> kind, sig |-> "finished", ok |-> ok, payload |-> payload]

\* The names of the signals emitted, in order.
SigNames(emit) == [i \in 1..Len(emit) |-> emit[i].sig]

\* The signals whose slot changes the interface.  The slot of every progress
\* signal, update_progress, only adds a line to the log pane, which is not part
\* of this model: a progress signal is recorded where it is emitted (the
\* worker's log) and not queued for delivery.
IsQueued(e) == e.sig # "progress"

Queued(emit) == SelectSeq(emit, IsQueued)

\* ------------------------------------------------------- workers

\* A QThread worker as its constructor leaves it.  pc is the position in run, log
\* the signals emitted so far, outbox those posted to the interface thread and
\* not yet delivered, oldest first.
Worker(kind, url, path, quality, format_type) ==
    [kind |-> kind, pc |-> "start", log |-> << >>, outbox |-> << >>,
     url |-> url, save_path |-> path,
     quality |-> quality, format_type |-> format_type, exc |-> "",
     safe_title |-> None, thumbnail_url |-> None, hooks |-> 0, ydl_opts |-> NoneRec,
     listed |-> FALSE, thumbnails |-> << >>, requested |-> FALSE, written |-> NoneRec]

\* The worker after one stretch of run that emitted the signals emit and stopped at pc.
Ran(w, pc, emit) ==
    [w EXCEPT !.pc = pc, !.log = w.log \o SigNames(emit), !.outbox = w.outbox \o Queued(emit)]

\* The same, leaving through the except clause with exception text e.
Caught(w, e, emit) == [Ran(w, "done", emit) EXCEPT !.exc = e]

\* VideoInfoExtractor.run whose except clause reports success.
VideoInfoExtractor_run_except_succeeds(w, out) ==
    IF w.pc = "start" THEN Ran(w, "extract", <<Progress("info")>>)
    ELSE IF out.raises
         THEN Caught(w, out.error, <<Finished("info", TRUE, [error |-> out.error])>>)
         ELSE Ran(w, "done", <<Progress("info"),
                              Finished("info", TRUE, video_data_of(out.value, w.url))>>)

\* VideoInfoExtractor.run whose except clause emits nothing.
VideoInfoExtractor_run_except_silent(w, out) ==
    IF w.pc = "start" THEN Ran(w, "extract", <<Progress("info")>>)
    ELSE IF out.raises
         THEN Caught(w, out.error, << >>)
         ELSE Ran(w, "done", <<Progress("info"),
                              Finished("info", TRUE, video_data_of(out.value, w.url))>>)

\* VideoInfoExtractor.run: up to the extraction call, then from its outcome to the end.
VideoInfoExtractor_run(w, out) ==
    IF w.pc = "start" THEN Ran(w, "extract", <<Progress("info")>>)
    ELSE IF out.raises
         THEN Caught(w, out.error, <<Finished("info", FALSE, [error |-> out.error])>>)
         ELSE Ran(w, "done", <<Progress("info"),
                              Finished("info", TRUE, video_data_of(out.value, w.url))>>)

\* str(e) of the exceptions of the library.
ExceptionText(e) ==
    CASE e = "Video unavailable" -> <<"V", "i", "d", "e", "o", " ", "u", "n", "a", "v", "a", "i", "l", "a", "b", "l", "e">>
      [] OTHER                   -> <<"e", "r", "r", "o", "r">>

\* The messages of the three failures of a thumbnail download.
NoThumbnailMessage == <<"U+C378", "U+B124", "U+C77C", "U+C744", " ", "U+CC3E", "U+C744", " ", "U+C218", " ", "U+C5C6", "U+C2B5", "U+B2C8", "U+B2E4", ".">>

NoQualityMessage == <<"U+C120", "U+D0DD", "U+D55C", " ", "U+D488", "U+C9C8", "U+C758", " ", "U+C378", "U+B124", "U+C77C", "U+C744", " ", "U+CC3E", "U+C744", " ", "U+C218", " ", "U+C5C6", "U+C2B5", "U+B2C8", "U+B2E4", ".">>

ErrorMessage(e) == <<"U+C624", "U+B958", " ", "U+BC1C", "U+C0DD", ":", " ">> \o ExceptionText(e)

\* The path and name of the thumbnail file.
ThumbnailFile(w, content_type) ==
    [dir |-> w.save_path, title |-> w.safe_title, quality |-> w.quality, ext |-> Ext(content_type)]

\* ThumbnailDownloader.run without the return after the empty-list failure.
ThumbnailDownloader_run_no_return(w, out) ==
    IF w.pc = "start" THEN Ran(w, "extract", <<Progress("thumb")>>)
    ELSE IF out.raises
         THEN Caught(w, out.error,
                     <<Finished("thumb", FALSE, [msg |-> "error", detail |-> out.error,
                                                 text |-> ErrorMessage(out.error)])>>)
    ELSE IF w.pc = "extract"
         THEN LET thumbnails == Get(out.value, "thumbnails", << >>)
              IN  IF thumbnails = << >>
                  THEN Ran(w, "transfer", <<Finished("thumb", FALSE, [msg |-> "no_thumbnail",
                                                                      text |-> NoThumbnailMessage]),
                                            Progress("thumb")>>)
                  ELSE Ran(w, "transfer", <<Progress("thumb")>>)
    ELSE Ran(w, "done", <<Progress("thumb"),
                          Finished("thumb", TRUE, [msg |-> "saved", file |-> ThumbnailFile(w, out.value)])>>)

\* ThumbnailDownloader.run with the message of the empty list used for the
\* empty selection as well.
ThumbnailDownloader_run_same_message(w, out) ==
    IF w.pc = "start" THEN Ran(w, "extract", <<Progress("thumb")>>)
    ELSE IF out.raises
         THEN Caught(w, out.error,
                     <<Finished("thumb", FALSE, [msg |-> "error", detail |-> out.error,
                                                 text |-> ErrorMessage(out.error)])>>)
    ELSE IF w.pc = "extract"
         THEN LET info          == out.value
                  video_title   == Get(info, "title", <<"U", "n", "k", "n", "o", "w", "n">>)
                  thumbnails    == Get(info, "thumbnails", << >>)
                  thumbnail_url == select_thumbnail_by_quality(thumbnails, w.quality)
                  listed        == [w EXCEPT !.safe_title = Sanitize(video_title),
                                             !.listed = TRUE,
                                             !.thumbnails = thumbnails]
                  found         == [listed EXCEPT !.thumbnail_url = thumbnail_url]
              IN  IF thumbnails = << >>
                  THEN Ran(listed, "done",
                           <<Finished("thumb", FALSE, [msg |-> "no_thumbnail",
                                                       text |-> NoThumbnailMessage])>>)
                  ELSE IF ~Truthy(thumbnail_url)
                  THEN Ran(found, "done",
                           <<Finished("thumb", FALSE, [msg |-> "no_quality",
                                                       text |-> NoThumbnailMessage])>>)
                  ELSE Ran([found EXCEPT !.requested = TRUE], "transfer", <<Progress("thumb")>>)
    ELSE Ran([w EXCEPT !.written = ThumbnailFile(w, out.value)], "done",
             <<Progress("thumb"),
               Finished("thumb", TRUE, [msg |-> "saved", file |-> ThumbnailFile(w, out.value)])>>)

\* ThumbnailDownloader.run: up to the extraction call, from its outcome to the
\* transfer (requests.get), and from the transfer's outcome to the file written
\* and the end.
ThumbnailDownloader_run(w, out) ==
    IF w.pc = "start" THEN Ran(w, "extract", <<Progress("thumb")>>)
    ELSE IF out.raises
         THEN Caught(w, out.error,
                     <<Finished("thumb", FALSE, [msg |-> "error", detail |-> out.error,
                                                 text |-> ErrorMessage(out.error)])>>)
    ELSE IF w.pc = "extract"
         THEN LET info          == out.value
                  video_title   == Get(info, "title", <<"U", "n", "k", "n", "o", "w", "n">>)
                  thumbnails    == Get(info, "thumbnails", << >>)
                  thumbnail_url == select_thumbnail_by_quality(thumbnails, w.quality)
                  listed        == [w EXCEPT !.safe_title = Sanitize(video_title),
                                             !.listed = TRUE,
                                             !.thumbnails = thumbnails]
                  found         == [listed EXCEPT !.thumbnail_url = thumbnail_url]
              IN  IF thumbnails = << >>
                  THEN Ran(listed, "done",
                           <<Finished("thumb", FALSE, [msg |-> "no_thumbnail",
                                                       text |-> NoThumbnailMessage])>>)
                  ELSE IF ~Truthy(thumbnail_url)
                  THEN Ran(found, "done",
                           <<Finished("thumb", FALSE, [msg |-> "no_quality",
                                                       text |-> NoQualityMessage])>>)
                  ELSE Ran([found EXCEPT !.requested = TRUE], "transfer", <<Progress("thumb")>>)
    ELSE Ran([w EXCEPT !.written = ThumbnailFile(w, out.value)], "done",
             <<Progress("thumb"),
               Finished("thumb", TRUE, [msg |-> "saved", file |-> ThumbnailFile(w, out.value)])>>)

\* s with the leading and trailing characters c removed: str.strip(c)
StripChar(s, c) ==
    LET keep == {i \in 1..Len(s) : s[i] # c}
    IN  IF keep = {} THEN << >>
        ELSE SubSeq(s, Min(keep), CHOOSE i \in keep : \A j \in keep : i >= j)

\* The value of a run of decimal digits.
RECURSIVE DigitsValue(_)
DigitsValue(s) ==
    IF s = << >> THEN 0
    ELSE 10 * DigitsValue(SubSeq(s, 1, Len(s) - 1))
         + ((CHOOSE i \in 1..10 : Digits[i] = s[Len(s)]) - 1)

\* int(float(text)) for text of the shape digits[.digits] within whitespace;
\* any other text raises, which is reported as None
IntOfFloat(text) ==
    LET t      == Strip(text)
        dots   == {i \in 1..Len(t) : t[i] = "."}
        whole  == IF dots = {} THEN t ELSE SubSeq(t, 1, Min(dots) - 1)
        frac   == IF dots = {} THEN << >> ELSE SubSeq(t, Min(dots) + 1, Len(t))
        digits == Range(Digits)
    IN  IF /\ t # << >>
           /\ Cardinality(dots) <= 1
           /\ Range(whole) \subseteq digits
           /\ Range(frac) \subseteq digits
           /\ whole \o frac # << >>
        THEN [ok |-> TRUE, value |-> DigitsValue(whole)]
        ELSE [ok |-> FALSE, value |-> 0]

\* progress_hook with the byte ratio taken the wrong way round.
progress_hook_inverted_ratio(d) ==
    IF d["status"] = "downloading"
    THEN IF "total_bytes" \in DOMAIN d /\ d["total_bytes"] # 0
         THEN IF "downloaded_bytes" \in DOMAIN d
              THEN LET percent == IF d["downloaded_bytes"] = 0 THEN 0
                                  ELSE (d["total_bytes"] * 100) \div d["downloaded_bytes"]
                   IN  Returns(<<Percent(percent), Progress("video")>>)
              ELSE Raises("'downloaded_bytes'")
         ELSE IF "_percent_str" \in DOMAIN d
              THEN LET parsed == IntOfFloat(StripChar(d["_percent_str"], "%"))
                   IN  IF parsed.ok
                       THEN Returns(<<Percent(parsed.value), Progress("video")>>)
                       ELSE Returns(<<Progress("video")>>)
              ELSE Returns(<< >>)
    ELSE IF d["status"] = "finished"
         THEN Returns(<<Progress("video"), Percent(100)>>)
         ELSE Returns(<< >>)

\* progress_hook(d): the signals it emits, or the KeyError it raises
progress_hook(d) ==
    IF d["status"] = "downloading"
    THEN IF "total_bytes" \in DOMAIN d /\ d["total_bytes"] # 0
         THEN IF "downloaded_bytes" \in DOMAIN d
              THEN LET percent == (d["downloaded_bytes"] * 100) \div d["total_bytes"]
                   IN  Returns(<<Percent(percent), Progress("video")>>)
              ELSE Raises("'downloaded_bytes'")
         ELSE IF "_percent_str" \in DOMAIN d
              THEN LET parsed == IntOfFloat(StripChar(d["_percent_str"], "%"))
                   IN  IF parsed.ok
                       THEN Returns(<<Percent(parsed.value), Progress("video")>>)
                       ELSE Returns(<<Progress("video")>>)
              ELSE Returns(<< >>)
    ELSE IF d["status"] = "finished"
         THEN Returns(<<Progress("video"), Percent(100)>>)
         ELSE Returns(<< >>)

\* The text of a quality entry, as the f-string puts it into the format selector.
QualityText(quality) ==
    CASE quality = "1080" -> <<"1", "0", "8", "0">>
      [] quality = "720"  -> <<"7", "2", "0">>
      [] quality = "480"  -> <<"4", "8", "0">>
      [] quality = "360"  -> <<"3", "6", "0">>
      [] quality = "best" -> <<"b", "e", "s", "t">>
      [] quality = "worst" -> <<"w", "o", "r", "s", "t">>

\* The postprocessor that extracts the audio track as MP3 at the given bitrate.
ExtractAudio(bitrate) ==
    <<[key |-> "FFmpegExtractAudio", preferredcodec |-> "mp3", preferredquality |-> bitrate]>>

\* The options every download starts from.
BaseOpts(w) ==
    [outtmpl |-> <<w.save_path, <<"%", "(", "t", "i", "t", "l", "e", ")", "s", ".", "%", "(", "e", "x", "t", ")", "s">>>>, quiet |-> FALSE, no_warnings |-> FALSE]

\* The options with the requested height put into the audio selector as well.
ydl_opts_height_for_audio(w) ==
    IF w.quality = "best"
    THEN IF w.format_type = "video"
         THEN BaseOpts(w) @@ ("format" :> <<"b", "e", "s", "t", "[", "e", "x", "t", "=", "m", "p", "4", "]", "/", "b", "e", "s", "t">>)
         ELSE BaseOpts(w) @@ ("format" :> <<"b", "e", "s", "t", "a", "u", "d", "i", "o", "[", "e", "x", "t", "=", "m", "4", "a", "]", "/", "b", "e", "s", "t", "a", "u", "d", "i", "o">>)
                          @@ ("postprocessors" :> ExtractAudio("192"))
    ELSE IF w.quality = "worst"
    THEN IF w.format_type = "video"
         THEN BaseOpts(w) @@ ("format" :> <<"w", "o", "r", "s", "t", "[", "e", "x", "t", "=", "m", "p", "4", "]", "/", "w", "o", "r", "s", "t">>)
         ELSE BaseOpts(w) @@ ("format" :> <<"w", "o", "r", "s", "t", "a", "u", "d", "i", "o", "[", "e", "x", "t", "=", "m", "4", "a", "]", "/", "w", "o", "r", "s", "t", "a", "u", "d", "i", "o">>)
                          @@ ("postprocessors" :> ExtractAudio("128"))
    ELSE IF w.format_type = "video"
         THEN BaseOpts(w) @@ ("format" :> <<"b", "e", "s", "t", "[", "h", "e", "i", "g", "h", "t", "<", "=">> \o QualityText(w.quality)
                                          \o <<"]", "[", "e", "x", "t", "=", "m", "p", "4", "]", "/", "b", "e", "s", "t", "[", "h", "e", "i", "g", "h", "t", "<", "=">>
                                          \o QualityText(w.quality) \o <<"]">>)
         ELSE BaseOpts(w) @@ ("format" :> <<"b", "e", "s", "t", "a", "u", "d", "i", "o", "[", "h", "e", "i", "g", "h", "t", "<", "=">> \o QualityText(w.quality)
                                          \o <<"]", "[", "e", "x", "t", "=", "m", "4", "a", "]", "/", "b", "e", "s", "t", "a", "u", "d", "i", "o">>)
                          @@ ("postprocessors" :> ExtractAudio("192"))

\* VideoDownloader.run: ydl_opts, from the quality and the media type
ydl_opts(w) ==
    IF w.quality = "best"
    THEN IF w.format_type = "video"
         THEN BaseOpts(w) @@ ("format" :> <<"b", "e", "s", "t", "[", "e", "x", "t", "=", "m", "p", "4", "]", "/", "b", "e", "s", "t">>)
         ELSE BaseOpts(w) @@ ("format" :> <<"b", "e", "s", "t", "a", "u", "d", "i", "o", "[", "e", "x", "t", "=", "m", "4", "a", "]", "/", "b", "e", "s", "t", "a", "u", "d", "i", "o">>)
                          @@ ("postprocessors" :> ExtractAudio("192"))
    ELSE IF w.quality = "worst"
    THEN IF w.format_type = "video"
         THEN BaseOpts(w) @@ ("format" :> <<"w", "o", "r", "s", "t", "[", "e", "x", "t", "=", "m", "p", "4", "]", "/", "w", "o", "r", "s", "t">>)
         ELSE BaseOpts(w) @@ ("format" :> <<"w", "o", "r", "s", "t", "a", "u", "d", "i", "o", "[", "e", "x", "t", "=", "m", "4", "a", "]", "/", "w", "o", "r", "s", "t", "a", "u", "d", "i", "o">>)
                          @@ ("postprocessors" :> ExtractAudio("128"))
    ELSE IF w.format_type = "video"
         THEN BaseOpts(w) @@ ("format" :> <<"b", "e", "s", "t", "[", "h", "e", "i", "g", "h", "t", "<", "=">> \o QualityText(w.quality)
                                          \o <<"]", "[", "e", "x", "t", "=", "m", "p", "4", "]", "/", "b", "e", "s", "t", "[", "h", "e", "i", "g", "h", "t", "<", "=">>
                                          \o QualityText(w.quality) \o <<"]">>)
         ELSE BaseOpts(w) @@ ("format" :> <<"b", "e", "s", "t", "a", "u", "d", "i", "o", "[", "e", "x", "t", "=", "m", "4", "a", "]", "/", "b", "e", "s", "t", "a", "u", "d", "i", "o">>)
                          @@ ("postprocessors" :> ExtractAudio("192"))

\* VideoDownloader.run: up to the download call, each progress event the library
\* delivers during it, and from its outcome to the end.
VideoDownloader_run(w, out) ==
    IF w.pc = "start"
    THEN [Ran(w, "download", <<Progress("video")>>) EXCEPT !.ydl_opts = ydl_opts(w)]
    ELSE IF out.raises
         THEN Caught(w, out.error,
                     <<Finished("video", FALSE, [msg |-> "download_failed", detail |-> out.error])>>)
    ELSE IF out.value.hook
         THEN LET h == progress_hook(out.value.d)
              IN  IF h.raises
                  THEN Caught(w, h.error,
                              <<Finished("video", FALSE, [msg |-> "download_failed", detail |-> h.error])>>)
                  ELSE Ran([w EXCEPT !.hooks = w.hooks + 1], "download", h.value)
    ELSE Ran(w, "done", <<Progress("video"),
                          Finished("video", TRUE, [msg |-> "downloaded", dir |-> w.save_path])>>)

\* What the blocking call a worker is waiting in can do next.
Outcomes(w) ==
    CASE w.pc = "start"    -> {Returns(NoneRec)}
      [] w.pc = "extract"  -> ExtractOutcomes
      [] w.pc = "transfer" -> TransferOutcomes
      [] w.pc = "download" ->
             {Raises(e) : e \in LibErrors}
             \cup {Returns([hook |-> FALSE])}
             \cup (IF w.hooks < MaxHookEvents
                   THEN {Returns([hook |-> TRUE, d |-> d]) : d \in HookEvents}
                   ELSE {})
      [] OTHER -> {}

\* ------------------------------------------------ the interface

VARIABLES
    info_button,            \* enabled?
    download_button,        \* enabled?
    video_download_button,  \* enabled?
    qr_button,              \* enabled?
    progress_bar,           \* the shared bar: visible?, indeterminate (range 0..0)?
    video_progress_bar,     \* the video tab's bar: visible?, value
    video_data,             \* the held metadata, or None
    save_path,              \* the thumbnail destination directory
    video_save_path,        \* the video destination directory
    fs,                     \* the directories that exist
    workers,                \* the workers started whose terminal signal is not yet handled
    dialogs,                \* the modal message boxes open, innermost last
    call,                   \* a function under check and its arguments
    ret                     \* its result

gui_vars == <<info_button, download_button, video_download_button, qr_button,
              progress_bar, video_progress_bar, video_data, save_path, video_save_path,
              fs, workers, dialogs>>

vars == <<gui_vars, call, ret>>

widgets == <<info_button, download_button, video_download_button, qr_button,
             progress_bar, video_progress_bar>>

Dirs == {"Desktop", "Videos"}

\* The texts the user has put into the URL field when clicking.
UrlSamples ==
    {<< >>,
     <<" ", " ">>,
     <<"h", "t", "t", "p", "s", ":", "/", "/", "e", "x", "a", "m", "p", "l", "e", ".", "c", "o", "m", "/", "v", "i", "d", "e", "o">>,
     <<" ", "h", "t", "t", "p", "s", ":", "/", "/", "y", "o", "u", "t", "u", ".", "b", "e", "/", "d", "Q", "w", "4", "w", "9", "W", "g", "X", "c", "Q", " ">>,
     <<"h", "t", "t", "p", "s", ":", "/", "/", "w", "w", "w", ".", "y", "o", "u", "t", "u", "b", "e", ".", "c", "o", "m", "/", "w", "a", "t", "c", "h", "?", "t", "=", "1", "&", "v", "=", "9", "b", "Z", "k", "p", "7", "q", "1", "9", "f", "0">>}

\* The data of the entries of quality_combo.
ThumbQualities == {"maxres", "high", "medium", "standard", "default"}

\* The data of the entries of video_quality_combo.
VideoQualities == {"best", "1080", "720", "480", "360", "worst"}

\* The data of the entries of video_type_combo.
FormatTypes == {"video", "audio"}

\* The entries selected when a download button is clicked: the combo boxes are
\* left at their first entries.
SelectedThumbQualities == {"maxres"}

SelectedVideoOptions == {<<"best", "video">>}

\* QMessageBox.warning / critical / information with the given message
Box(icon, text) == [icon |-> icon, text |-> text]

\* The state __init__ leaves, with `existing` the directories that exist.
GuiInit(existing) ==
    /\ info_button = TRUE
    /\ download_button = TRUE
    /\ video_download_button = TRUE
    /\ qr_button = FALSE
    /\ progress_bar = [visible |-> FALSE, indeterminate |-> FALSE]
    /\ video_progress_bar = [visible |-> FALSE, value |-> -1]
    /\ video_data = NoneRec
    /\ save_path = "Desktop"
    /\ video_save_path = "Desktop"
    /\ fs = existing
    /\ workers = << >>
    /\ dialogs = << >>

NoCall == [fn |-> "none"]

NotReturned == [done |-> FALSE]

\* The default directory (the home directory's Desktop) exists, or it does not
\* and another directory does.
Init ==
    /\ \E existing \in {{"Desktop"}, {"Videos"}} : GuiInit(existing)
    /\ call = NoCall
    /\ ret = NotReturned

\* get_video_info that changes the interface before it checks the URL.
get_video_info_disable_first(text) ==
    LET url == Strip(text)
    IN  /\ info_button' = FALSE
        /\ IF url = << >>
           THEN /\ dialogs' = Append(dialogs, Box("warning", "url_empty"))
                /\ UNCHANGED <<progress_bar, workers>>
           ELSE IF ~validate_youtube_url(url)
           THEN /\ dialogs' = Append(dialogs, Box("warning", "url_invalid"))
                /\ UNCHANGED <<progress_bar, workers>>
           ELSE /\ progress_bar' = [visible |-> TRUE, indeterminate |-> TRUE]
                /\ workers' = Append(workers, Worker("info", url, "", "", ""))
                /\ UNCHANGED dialogs

\* get_video_info that leaves the button enabled.
get_video_info_no_disable(text) ==
    LET url == Strip(text)
    IN  IF url = << >>
        THEN /\ dialogs' = Append(dialogs, Box("warning", "url_empty"))
             /\ UNCHANGED <<info_button, progress_bar, workers>>
        ELSE IF ~validate_youtube_url(url)
        THEN /\ dialogs' = Append(dialogs, Box("warning", "url_invalid"))
             /\ UNCHANGED <<info_button, progress_bar, workers>>
        ELSE /\ progress_bar' = [visible |-> TRUE, indeterminate |-> TRUE]
             /\ workers' = Append(workers, Worker("info", url, "", "", ""))
             /\ UNCHANGED <<info_button, dialogs>>

\* YouTubeThumbnailGUI.get_video_info, with text the content of the URL field
get_video_info(text) ==
    LET url == Strip(text)
    IN  IF url = << >>
        THEN /\ dialogs' = Append(dialogs, Box("warning", "url_empty"))
             /\ UNCHANGED <<info_button, progress_bar, workers>>
        ELSE IF ~validate_youtube_url(url)
        THEN /\ dialogs' = Append(dialogs, Box("warning", "url_invalid"))
             /\ UNCHANGED <<info_button, progress_bar, workers>>
        ELSE /\ info_button' = FALSE
             /\ progress_bar' = [visible |-> TRUE, indeterminate |-> TRUE]
             /\ workers' = Append(workers, Worker("info", url, "", "", ""))
             /\ UNCHANGED dialogs

\* A click on the "get video info" button with one of the texts in the URL
\* field; a disabled button or one under a modal box takes no click.
ClickInfoWith(texts) ==
    /\ dialogs = << >>
    /\ info_button
    /\ \E text \in texts : get_video_info(text)
    /\ UNCHANGED <<download_button, video_download_button, qr_button,
                   video_progress_bar, video_data, save_path, video_save_path, fs,
                   call, ret>>

ClickInfo == ClickInfoWith(UrlSamples)

\* download_thumbnail without the check of the held metadata.
download_thumbnail_unchecked ==
    IF save_path \notin fs
    THEN /\ dialogs' = Append(dialogs, Box("warning", "no_directory"))
         /\ UNCHANGED <<download_button, progress_bar, workers>>
    ELSE /\ download_button' = FALSE
         /\ progress_bar' = [visible |-> TRUE, indeterminate |-> TRUE]
         /\ \E quality \in SelectedThumbQualities :
                workers' = Append(workers,
                                  Worker("thumb", Get(video_data, "url", None), save_path, quality, ""))
         /\ UNCHANGED dialogs

\* YouTubeThumbnailGUI.download_thumbnail
download_thumbnail ==
    IF video_data = NoneRec
    THEN /\ dialogs' = Append(dialogs, Box("warning", "no_video_data"))
         /\ UNCHANGED <<download_button, progress_bar, workers>>
    ELSE IF save_path \notin fs
    THEN /\ dialogs' = Append(dialogs, Box("warning", "no_directory"))
         /\ UNCHANGED <<download_button, progress_bar, workers>>
    ELSE /\ download_button' = FALSE
         /\ progress_bar' = [visible |-> TRUE, indeterminate |-> TRUE]
         /\ \E quality \in SelectedThumbQualities :
                workers' = Append(workers,
                                  Worker("thumb", video_data.url, save_path, quality, ""))
         /\ UNCHANGED dialogs

\* A click on the "download thumbnail" button.
ClickThumbnail ==
    /\ dialogs = << >>
    /\ download_button
    /\ download_thumbnail
    /\ UNCHANGED <<info_button, video_download_button, qr_button,
                   video_progress_bar, video_data, save_path, video_save_path, fs,
                   call, ret>>

\* YouTubeThumbnailGUI.download_video
download_video_with(options) ==
    IF video_data = NoneRec
    THEN /\ dialogs' = Append(dialogs, Box("warning", "no_video_data"))
         /\ UNCHANGED <<video_download_button, video_progress_bar, workers>>
    ELSE IF video_save_path \notin fs
    THEN /\ dialogs' = Append(dialogs, Box("warning", "no_directory"))
         /\ UNCHANGED <<video_download_button, video_progress_bar, workers>>
    ELSE /\ video_download_button' = FALSE
         /\ video_progress_bar' = [visible |-> TRUE, value |-> 0]
         /\ \E option \in options :
                workers' = Append(workers,
                                  Worker("video", video_data.url, video_save_path,
                                         option[1], option[2]))
         /\ UNCHANGED dialogs

download_video == download_video_with(SelectedVideoOptions)

\* A click on the "download video" button with the two combo boxes at one of
\* the given entries.
ClickVideoWith(options) ==
    /\ dialogs = << >>
    /\ video_download_button
    /\ download_video_with(options)
    /\ UNCHANGED <<info_button, download_button, qr_button, progress_bar,
                   video_data, save_path, video_save_path, fs, call, ret>>

ClickVideo == ClickVideoWith(SelectedVideoOptions)

\* browse_save_path: the folder dialog yields an existing directory, or nothing
browse_save_path ==
    /\ dialogs = << >>
    /\ \E folder \in fs \ {save_path} : save_path' = folder
    /\ UNCHANGED <<widgets, video_data, video_save_path, fs, workers, dialogs, call, ret>>

\* browse_video_save_path
browse_video_save_path ==
    /\ dialogs = << >>
    /\ \E folder \in fs \ {video_save_path} : video_save_path' = folder
    /\ UNCHANGED <<widgets, video_data, save_path, fs, workers, dialogs, call, ret>>

\* The message box after a code image was saved: data is the text the image
\* encodes, file the name it was saved under.
QrBox(data, dir, title) ==
    [icon |-> "information", text |-> "qr_saved", data |-> data,
     file |-> [dir |-> dir, title |-> Sanitize(title)]]

\* YouTubeThumbnailGUI.generate_qr_code: the image is made from the URL of the
\* held metadata; the save dialog is cancelled, or the image is saved under the
\* name proposed, or making or saving it raises.
generate_qr_code ==
    IF video_data = NoneRec
    THEN dialogs' = Append(dialogs, Box("warning", "no_video_data"))
    ELSE \/ dialogs' = dialogs
         \/ dialogs' = Append(dialogs, QrBox(video_data.url, save_path, video_data.title))
         \/ dialogs' = Append(dialogs, Box("critical", "qr_failed"))

\* A click on the "QR code" button.
ClickQr ==
    /\ dialogs = << >>
    /\ qr_button
    /\ generate_qr_code
    /\ UNCHANGED <<widgets, video_data, save_path, video_save_path, fs, workers, call, ret>>

\* The user closes the innermost message box.
Dismiss ==
    /\ dialogs # << >>
    /\ dialogs' = SubSeq(dialogs, 1, Len(dialogs) - 1)
    /\ UNCHANGED <<widgets, video_data, save_path, video_save_path, fs, workers, call, ret>>

\* ------------------------------------------ the workers' threads

\* run of a worker of the given kind
Run(w, out) ==
    CASE w.kind = "info"  -> VideoInfoExtractor_run(w, out)
      [] w.kind = "thumb" -> ThumbnailDownloader_run(w, out)
      [] w.kind = "video" -> VideoDownloader_run(w, out)

\* A worker of the given kind goes on to its next blocking call, or to its end.
WorkerStep(kind) ==
    /\ \E i \in 1..Len(workers) :
        /\ workers[i].kind = kind
        /\ \E out \in Outcomes(workers[i]) :
               workers' = [workers EXCEPT ![i] = Run(workers[i], out)]
    /\ UNCHANGED <<widgets, video_data, save_path, video_save_path, fs, dialogs, call, ret>>

InfoWorkerStep == WorkerStep("info")

ThumbWorkerStep == WorkerStep("thumb")

VideoWorkerStep == WorkerStep("video")

\* --------------------------------------------- the slots

\* The workers of a kind whose terminal signal has not been handled.
Active(kind) == {i \in 1..Len(workers) : workers[i].kind = kind}

\* workers without the i-th
Without(i) == SubSeq(workers, 1, i - 1) \o SubSeq(workers, i + 1, Len(workers))

\* The event loop of the interface thread delivers the oldest undelivered signal
\* of worker i, a signal sig of a worker of this kind.
Delivered(i, kind, sig) ==
    /\ workers[i].kind = kind
    /\ workers[i].outbox # << >>
    /\ Head(workers[i].outbox).sig = sig

\* YouTubeThumbnailGUI.update_video_progress
update_video_progress(percent) ==
    video_progress_bar' = [video_progress_bar EXCEPT !.value = percent]

HandlePercent ==
    /\ \E i \in 1..Len(workers) :
        /\ Delivered(i, "video", "progress_percent")
        /\ update_video_progress(Head(workers[i].outbox).payload.percent)
        /\ workers' = [workers EXCEPT ![i].outbox = Tail(@)]
    /\ UNCHANGED <<info_button, download_button, video_download_button,
                   qr_button, progress_bar, video_data, save_path, video_save_path, fs,
                   dialogs, call, ret>>

\* info_extraction_finished that drops the held metadata when the fetch failed.
info_extraction_finished_clears_on_failure(success, data) ==
    /\ info_button' = TRUE
    /\ progress_bar' = [progress_bar EXCEPT !.visible = FALSE]
    /\ IF success
       THEN /\ video_data' = data
            /\ qr_button' = TRUE
            /\ UNCHANGED dialogs
       ELSE /\ dialogs' = Append(dialogs, Box("critical", "info_failed"))
            /\ video_data' = NoneRec
            /\ qr_button' = FALSE

\* YouTubeThumbnailGUI.info_extraction_finished
info_extraction_finished(success, data) ==
    /\ info_button' = TRUE
    /\ progress_bar' = [progress_bar EXCEPT !.visible = FALSE]
    /\ IF success
       THEN /\ video_data' = data
            /\ qr_button' = TRUE
            /\ UNCHANGED dialogs
       ELSE /\ dialogs' = Append(dialogs, Box("critical", "info_failed"))
            /\ UNCHANGED <<video_data, qr_button>>

HandleInfoFinished ==
    /\ \E i \in 1..Len(workers) :
        /\ Delivered(i, "info", "finished")
        /\ info_extraction_finished(Head(workers[i].outbox).ok, Head(workers[i].outbox).payload)
        /\ workers' = Without(i)
    /\ UNCHANGED <<download_button, video_download_button, video_progress_bar,
                   save_path, video_save_path, fs, call, ret>>

\* YouTubeThumbnailGUI.download_finished
download_finished(success, message) ==
    /\ download_button' = TRUE
    /\ progress_bar' = [progress_bar EXCEPT !.visible = FALSE]
    /\ dialogs' = Append(dialogs, IF success THEN Box("information", message.msg)
                                             ELSE Box("critical", message.msg))

HandleThumbFinished ==
    /\ \E i \in 1..Len(workers) :
        /\ Delivered(i, "thumb", "finished")
        /\ download_finished(Head(workers[i].outbox).ok, Head(workers[i].outbox).payload)
        /\ workers' = Without(i)
    /\ UNCHANGED <<info_button, video_download_button, qr_button,
                   video_progress_bar, video_data, save_path, video_save_path, fs,
                   call, ret>>

\* YouTubeThumbnailGUI.video_download_finished
video_download_finished(success, message) ==
    /\ video_download_button' = TRUE
    /\ video_progress_bar' = [video_progress_bar EXCEPT !.visible = FALSE]
    /\ dialogs' = Append(dialogs, IF success THEN Box("information", message.msg)
                                             ELSE Box("critical", message.msg))

HandleVideoFinished ==
    /\ \E i \in 1..Len(workers) :
        /\ Delivered(i, "video", "finished")
        /\ video_download_finished(Head(workers[i].outbox).ok, Head(workers[i].outbox).payload)
        /\ workers' = Without(i)
    /\ UNCHANGED <<info_button, download_button, qr_button, progress_bar,
                   video_data, save_path, video_save_path, fs, call, ret>>

Next ==
    \/ ClickInfo
    \/ ClickThumbnail
    \/ ClickVideo
    \/ browse_save_path
    \/ browse_video_save_path
    \/ Dismiss
    \/ InfoWorkerStep
    \/ ThumbWorkerStep
    \/ VideoWorkerStep
    \/ HandlePercent
    \/ HandleInfoFinished
    \/ HandleThumbFinished
    \/ HandleVideoFinished

Spec == Init /\ [][Next]_vars

\* The video tab with its two combo boxes at any of their entries: the metadata
\* fetch that a download needs, and the video download.
VideoOptions == VideoQualities \X FormatTypes

ClickVideoAnyOption == ClickVideoWith(VideoOptions)

\* The interface for the progress properties: the default directory exists and
\* the URL field is empty or holds one valid URL.  Neither the directory nor the
\* URL decides whether a worker that was started comes to its end.
LiveUrlSamples == {<< >>, <<" ", "h", "t", "t", "p", "s", ":", "/", "/", "y", "o", "u", "t", "u", ".", "b", "e", "/", "d", "Q", "w", "4", "w", "9", "W", "g", "X", "c", "Q", " ">>}

LiveInit ==
    /\ GuiInit({"Desktop"})
    /\ call = NoCall
    /\ ret = NotReturned

LiveClickInfo == ClickInfoWith(LiveUrlSamples)

LiveNext ==
    \/ LiveClickInfo
    \/ ClickThumbnail
    \/ ClickVideo
    \/ Dismiss
    \/ InfoWorkerStep
    \/ ThumbWorkerStep
    \/ VideoWorkerStep
    \/ HandlePercent
    \/ HandleInfoFinished
    \/ HandleThumbFinished
    \/ HandleVideoFinished

\* The interface with the code-image button, the default directory existing.
CodeImageNext ==
    \/ ClickInfo
    \/ ClickThumbnail
    \/ ClickVideo
    \/ ClickQr
    \/ Dismiss
    \/ InfoWorkerStep
    \/ ThumbWorkerStep
    \/ VideoWorkerStep
    \/ HandlePercent
    \/ HandleInfoFinished
    \/ HandleThumbFinished
    \/ HandleVideoFinished

CodeImageSpec == LiveInit /\ [][CodeImageNext]_vars

VideoTabNext ==
    \/ LiveClickInfo
    \/ ClickVideoAnyOption
    \/ Dismiss
    \/ InfoWorkerStep
    \/ VideoWorkerStep
    \/ HandlePercent
    \/ HandleInfoFinished
    \/ HandleVideoFinished

VideoTabSpec == LiveInit /\ [][VideoTabNext]_vars

\* The event loop delivers every posted signal, and every blocking call of a
\* worker returns or raises.
FairSpec ==
    /\ LiveInit
    /\ [][LiveNext]_vars
    /\ WF_vars(InfoWorkerStep)
    /\ WF_vars(ThumbWorkerStep)
    /\ WF_vars(VideoWorkerStep)
    /\ WF_vars(HandlePercent)
    /\ WF_vars(HandleInfoFinished)
    /\ WF_vars(HandleThumbFinished)
    /\ WF_vars(HandleVideoFinished)

\* ------------------------------------- the functions on their own

\* All sequences over S of length at most n.
SeqsUpTo(S, n) == UNION {[1..k -> S] : k \in 0..n}

\* The function f restricted to the keys K.
Restrict(f, K) == [k \in K |-> f[k]]

\* The interface at rest while a function is checked on its own.
AtRest == GuiInit({"Desktop"})

\* The longest identifier tried.
MaxIdLen == 12

\* The identifier of n characters read from src, starting at offset off and wrapping.
IdSource == <<"d", "Q", "w", "4", "w", "9", "W", "g", "X", "c", "Q", "_", "-", "a", "Z", "0">>

IdOf(n, off) == [i \in 1..n |-> IdSource[((off + i - 1) % Len(IdSource)) + 1]]

Schemes == {<<"h", "t", "t", "p", "s", ":", "/", "/">>, <<"h", "t", "t", "p", "s", ":", "/", "/", "w", "w", "w", ".">>, <<"h", "t", "t", "p", ":", "/", "/", "m", ".">>}

\* What precedes the identifier: the three supported shapes, the watch shape with
\* v= behind other parameters, and the same shapes on other sites.
UrlHeads ==
    {[shape |-> "watch",  related |-> TRUE,  text |-> <<"y", "o", "u", "t", "u", "b", "e", ".", "c", "o", "m", "/", "w", "a", "t", "c", "h", "?", "v", "=">>],
     [shape |-> "buried", related |-> TRUE,  text |-> <<"y", "o", "u", "t", "u", "b", "e", ".", "c", "o", "m", "/", "w", "a", "t", "c", "h", "?", "l", "i", "s", "t", "=", "P", "L", "1", "&", "v", "=">>],
     [shape |-> "buried", related |-> TRUE,  text |-> <<"y", "o", "u", "t", "u", "b", "e", ".", "c", "o", "m", "/", "w", "a", "t", "c", "h", "?", "f", "e", "a", "t", "u", "r", "e", "=", "s", "h", "a", "r", "e", "&", "t", "=", "1", "s", "&", "v", "=">>],
     [shape |-> "short",  related |-> TRUE,  text |-> <<"y", "o", "u", "t", "u", ".", "b", "e", "/">>],
     [shape |-> "embed",  related |-> TRUE,  text |-> <<"y", "o", "u", "t", "u", "b", "e", ".", "c", "o", "m", "/", "e", "m", "b", "e", "d", "/">>],
     [shape |-> "short",  related |-> FALSE, text |-> <<"v", "i", "m", "e", "o", ".", "c", "o", "m", "/">>],
     [shape |-> "watch",  related |-> FALSE, text |-> <<"e", "x", "a", "m", "p", "l", "e", ".", "c", "o", "m", "/", "w", "a", "t", "c", "h", "?", "v", "=">>],
     [shape |-> "embed",  related |-> FALSE, text |-> <<"e", "x", "a", "m", "p", "l", "e", ".", "c", "o", "m", "/", "e", "m", "b", "e", "d", "/">>],
     [shape |-> "short",  related |-> FALSE, text |-> <<"d", "a", "i", "l", "y", "m", "o", "t", "i", "o", "n", ".", "c", "o", "m", "/", "v", "i", "d", "e", "o", "/">>]}

\* What follows the identifier; each begins with a character outside the class.
UrlTails == {<< >>, <<"&", "t", "=", "4", "2">>, <<"?", "f", "e", "a", "t", "u", "r", "e", "=", "s", "h", "a", "r", "e">>}

UrlCalls ==
    {[fn      |-> "validate_youtube_url",
      url     |-> scheme \o head.text \o IdOf(n, off) \o tail,
      shape   |-> head.shape,
      related |-> head.related,
      idlen   |-> n] :
        scheme \in Schemes, head \in UrlHeads, n \in 0..MaxIdLen, off \in {0, 5}, tail \in UrlTails}

UrlInit == AtRest /\ call \in UrlCalls /\ ret = NotReturned

ValidateCall ==
    /\ call.fn = "validate_youtube_url"
    /\ ~ret.done
    /\ ret' = [done |-> TRUE, value |-> validate_youtube_url(call.url)]
    /\ UNCHANGED <<gui_vars, call>>

UrlSpec == UrlInit /\ [][ValidateCall]_vars

\* The most candidates in a list tried.
MaxThumbs == 3

SelectCalls ==
    {[fn |-> "select_thumbnail_by_quality", thumbnails |-> t, quality |-> q] :
        t \in SeqsUpTo(Candidates, MaxThumbs), q \in ThumbQualities}

SelectInit == AtRest /\ call \in SelectCalls /\ ret = NotReturned

SelectCall ==
    /\ call.fn = "select_thumbnail_by_quality"
    /\ ~ret.done
    /\ ret' = [done |-> TRUE, value |-> select_thumbnail_by_quality(call.thumbnails, call.quality)]
    /\ UNCHANGED <<gui_vars, call>>

SelectSpec == SelectInit /\ [][SelectCall]_vars

\* The library's results: any of the fields may be missing.
ExtractCalls ==
    {[fn |-> "video_data", info |-> Restrict(InfoFull, K), url |-> <<"h", "t", "t", "p", "s", ":", "/", "/", "y", "o", "u", "t", "u", ".", "b", "e", "/", "d", "Q", "w", "4", "w", "9", "W", "g", "X", "c", "Q">>] :
        K \in SUBSET InfoKeys}

ExtractInit == AtRest /\ call \in ExtractCalls /\ ret = NotReturned

ExtractCall ==
    /\ call.fn = "video_data"
    /\ ~ret.done
    /\ ret' = [done |-> TRUE, value |-> video_data_of(call.info, call.url)]
    /\ UNCHANGED <<gui_vars, call>>

ExtractSpec == ExtractInit /\ [][ExtractCall]_vars

\* The most bytes of a file in a progress event tried.
MaxBytes == 9

\* The textual percentages of the library: a share of the file with one
\* decimal, padded, or a text with no number when the size is unknown.
PercentTexts ==
    {<<" ", " ", "0", ".", "0", "%">>, <<" ", " ", "0", ".", "9", "%">>, <<" ", "5", "0", ".", "0", "%">>, <<" ", "9", "9", ".", "9", "%">>, <<"1", "0", "0", ".", "0", "%">>, <<"1", "0", "0", "%">>,
     <<"N", "/", "A">>, <<"U", "n", "k", "n", "o", "w", "n", " ", "%">>, <<"%">>, << >>}

\* The progress events of a download: byte counts with the bytes so far at most
\* the size of the file, with or without the textual percentage; a size that is
\* unknown (None or 0) or absent, with or without the text; the end of the
\* download; and a status the hook does not look at.
ByteEvents ==
    {("status" :> "downloading") @@ ("total_bytes" :> total) @@ ("downloaded_bytes" :> downloaded) :
        total \in 1..MaxBytes, downloaded \in 0..MaxBytes}

SizedEvents == {d \in ByteEvents : d["downloaded_bytes"] <= d["total_bytes"]}

TextEvents ==
    {("status" :> "downloading") @@ ("_percent_str" :> text) : text \in PercentTexts}

LibHookEvents ==
    SizedEvents
    \cup {d @@ ("_percent_str" :> <<" ", "5", "0", ".", "0", "%">>) : d \in SizedEvents}
    \cup TextEvents
    \cup {d @@ ("total_bytes" :> 0) @@ ("downloaded_bytes" :> 3) : d \in TextEvents}
    \cup {("status" :> "downloading") @@ ("downloaded_bytes" :> 3)}
    \cup {HookFinished, [status |-> "error"]}

HookCalls == {[fn |-> "progress_hook", d |-> d] : d \in LibHookEvents}

HookInit == AtRest /\ call \in HookCalls /\ ret = NotReturned

HookCall ==
    /\ call.fn = "progress_hook"
    /\ ~ret.done
    /\ ret' = [done |-> TRUE, value |-> progress_hook(call.d)]
    /\ UNCHANGED <<gui_vars, call>>

HookSpec == HookInit /\ [][HookCall]_vars

\* The longest title tried, but for the title of the example.
MaxTitleLen == 3

\* The characters titles are made of: those of the class, and some outside it.
TitleChars == IllegalChars \cup {"a", "_", " ", ".", "-"}

SanitizeCalls ==
    {[fn |-> "sanitize", title |-> t] :
        t \in SeqsUpTo(TitleChars, MaxTitleLen) \cup {<<"T", "e", "s", "t", ":", "V", "i", "d", "e", "o", "/", "N", "a", "m", "e", "?">>, <<"U", "n", "k", "n", "o", "w", "n">>}}

SanitizeInit == AtRest /\ call \in SanitizeCalls /\ ret = NotReturned

SanitizeCall ==
    /\ call.fn = "sanitize"
    /\ ~ret.done
    /\ ret' = [done |-> TRUE, value |-> Sanitize(call.title)]
    /\ UNCHANGED <<gui_vars, call>>

SanitizeSpec == SanitizeInit /\ [][SanitizeCall]_vars

\* ------------------------------------------------------- claims

\* The worker records of a kind.
WorkersOf(kind) == {workers[i] : i \in Active(kind)}

\* The control that triggers the action of a kind is enabled.
Enabled(kind) ==
    CASE kind = "info"  -> info_button
      [] kind = "thumb" -> download_button
      [] kind = "video" -> video_download_button

Kinds == {"info", "thumb", "video"}

\* The positions of the terminal signal in what a worker has emitted.
Terminals(w) == {n \in 1..Len(w.log) : w.log[n] = "finished"}

\* C1: a thumbnail-download or video-download worker exists only when the held
\* metadata is non-null, that is when an earlier metadata fetch delivered terminal
\* success; a download click before that starts no worker.
C1_DownloadNeedsMetadata ==
    (WorkersOf("thumb") \cup WorkersOf("video") # {}) => video_data # NoneRec

C1_Witness ==
    /\ WorkersOf("thumb") # {}
    /\ WorkersOf("video") # {}
    /\ video_data # NoneRec

\* C2, in every state: the control of a kind is disabled exactly while a worker
\* of that kind is active, and at most one worker of a kind is active.
C2_DisabledWhileActive ==
    \A kind \in Kinds :
        /\ Enabled(kind) <=> Active(kind) = {}
        /\ Cardinality(Active(kind)) <= 1

\* C2, in every step: a control becomes enabled only in the step that delivers
\* the terminal signal of the active worker of its kind.
C2_EnabledByTerminal ==
    \A kind \in Kinds :
        (~Enabled(kind) /\ Enabled(kind)') =>
            \E i \in Active(kind) :
                /\ Delivered(i, kind, "finished")
                /\ workers' = Without(i)

\* C2: under every interleaving of clicks and worker signals the triggering
\* control of each action kind is disabled exactly while a worker of that kind
\* has been dispatched and its terminal signal is not yet handled, and it is
\* re-enabled only by handling that signal; so at most one worker of a kind is
\* active at a time.
C2_ControlTracksWorker == []C2_DisabledWhileActive /\ [][C2_EnabledByTerminal]_vars

C2_Witness == \A kind \in Kinds : ~Enabled(kind) /\ Cardinality(Active(kind)) = 1

\* C3: what a worker has emitted is progress and percentage signals followed by
\* at most one terminal signal, nothing follows the terminal signal, and run has
\* ended exactly when the terminal signal has been emitted: every run emits one
\* terminal signal, on every path.
C3_OneTerminalLast ==
    \A i \in 1..Len(workers) :
        LET w == workers[i]
        IN  /\ Cardinality(Terminals(w)) <= 1
            /\ Terminals(w) \subseteq {Len(w.log)}
            /\ (w.pc = "done") <=> (Terminals(w) # {})

\* Three runs that ended on three different paths: the extraction raised, the
\* thumbnail list was empty, and a download that reported a percentage succeeded.
C3_Witness ==
    /\ \E w \in WorkersOf("info") : w.pc = "done" /\ w.exc # ""
    /\ \E w \in WorkersOf("thumb") :
           w.pc = "done" /\ w.outbox # << >> /\ Head(w.outbox).payload.msg = "no_thumbnail"
    /\ \E w \in WorkersOf("video") :
           w.pc = "done" /\ w.exc = "" /\ \E n \in 1..Len(w.log) : w.log[n] = "progress_percent"

\* C4, in every state: a metadata worker whose extraction call raised has
\* emitted one terminal signal, and the only signal it has posted is a terminal
\* failure carrying the text of the exception.
C4_OneFailureDelivered ==
    \A w \in WorkersOf("info") :
        w.exc # "" =>
            /\ w.outbox = <<Finished("info", FALSE, [error |-> w.exc])>>
            /\ Cardinality(Terminals(w)) = 1

\* C4, in every step: handling a terminal failure of a metadata worker enables
\* the metadata-fetch control.
C4_FailureEnables ==
    \A i \in Active("info") :
        (/\ Delivered(i, "info", "finished")
         /\ ~Head(workers[i].outbox).ok
         /\ workers' = Without(i)) => info_button'

\* C4: if the extraction call of a metadata fetch raises, the worker delivers
\* exactly one terminal failure carrying the library's error text and no
\* terminal success, and handling that failure re-enables the control.
C4_FailedFetch == []C4_OneFailureDelivered /\ [][C4_FailureEnables]_vars

C4_Witness == \E w \in WorkersOf("info") : w.exc # "" /\ ~info_button

\* All three controls are enabled and no worker is active.
Idle == \A kind \in Kinds : Enabled(kind) /\ Active(kind) = {}

\* A click on one of the three controls.
Click == LiveClickInfo \/ ClickThumbnail \/ ClickVideo

\* C5: under fair scheduling, with every library call returning or raising, each
\* control that is disabled becomes enabled again (the terminal signal of its
\* worker is handled, on success and on failure), and unless the user goes on
\* clicking for ever the interface comes to rest in the idle state.
C5_ReturnsToIdle ==
    /\ \A kind \in Kinds : (~Enabled(kind)) ~> Enabled(kind)
    /\ ([]<><<Click>>_vars) \/ (<>[]Idle)

C5_Witness ==
    /\ \E w \in WorkersOf("video") : w.exc # ""
    /\ \E w \in WorkersOf("thumb") : w.exc # ""
    /\ ~download_button /\ ~video_download_button

\* The step opens a warning box.
Rejects ==
    /\ Len(dialogs') = Len(dialogs) + 1
    /\ dialogs'[Len(dialogs')].icon = "warning"

\* C6, in every state: every metadata worker was started with a non-empty URL
\* the validator accepts, and every download worker with a directory that exists.
C6_StartedOnlyIfValid ==
    /\ \A w \in WorkersOf("info") : w.url # << >> /\ validate_youtube_url(w.url)
    /\ \A w \in WorkersOf("thumb") \cup WorkersOf("video") : w.save_path \in fs

\* C6, in every step: a rejection changes no control, no progress bar, no worker,
\* not the held metadata and not the selected directories, and the control that
\* was clicked is still enabled.
C6_RejectionChangesNothing ==
    Rejects =>
        /\ UNCHANGED <<widgets, workers, video_data, save_path, video_save_path, fs>>
        /\ LET text == dialogs'[Len(dialogs')].text
           IN  /\ text \in {"url_empty", "url_invalid"} => info_button'
               /\ text = "no_directory" =>
                      \/ download_button' /\ save_path' \notin fs'
                      \/ video_download_button' /\ video_save_path' \notin fs'

\* C6: an action rejected by input validation (a metadata fetch with an empty or
\* unrecognized URL, a download with a destination directory that does not exist)
\* starts no worker and changes nothing: the control stays enabled, no progress
\* bar is shown by it, the held metadata and the selected directories stay.
C6_RejectedActionIsIdle == []C6_StartedOnlyIfValid /\ [][C6_RejectionChangesNothing]_vars

C6_Witness ==
    /\ dialogs # << >>
    /\ dialogs[Len(dialogs)] = Box("warning", "no_directory")
    /\ video_data # NoneRec
    /\ WorkersOf("info") # {}

\* C7: while a metadata or a thumbnail worker is active the shared progress bar
\* is visible, and while a video worker is active the video progress bar is.
C7_ProgressShownWhileActive ==
    /\ (Active("info") \cup Active("thumb") # {}) => progress_bar.visible
    /\ (Active("video") # {}) => video_progress_bar.visible

\* C8: the selection returns None exactly for the empty candidate list, and for a
\* non-empty list the url of a candidate of the list.
C8_SelectsOneCandidate ==
    (call.fn = "select_thumbnail_by_quality" /\ ret.done) =>
        /\ (ret.value = None) <=> (call.thumbnails = << >>)
        /\ call.thumbnails # << >> =>
               \E i \in 1..Len(call.thumbnails) : ret.value = call.thumbnails[i].url

\* A list in which no identifier and no width fits the tier: the last resort.
C8_Witness ==
    /\ call.fn = "select_thumbnail_by_quality"
    /\ ret.done
    /\ call.quality = "high"
    /\ call.thumbnails = <<T5, T8, T8>>
    /\ ret.value = T8.url

\* C9: the validator accepts every URL with an 11-character identifier after
\* watch?v=, after the short-link host or after embed/ of the supported sites,
\* also when v= is not the first query parameter, and rejects every URL whose
\* identifier there is shorter, and every URL of another site.
C9_ValidatorAcceptsExactlyIds ==
    (call.fn = "validate_youtube_url" /\ ret.done) =>
        /\ (call.related /\ call.idlen = IdLen) => ret.value
        /\ (~call.related \/ call.idlen < IdLen) => ~ret.value

C9_Witness ==
    /\ call.fn = "validate_youtube_url"
    /\ ret.done
    /\ call.shape = "buried"
    /\ call.idlen = IdLen
    /\ ret.value

\* What the claim takes a missing field to become.
ClaimedDefault(key) ==
    CASE key \in {"title", "uploader", "upload_date", "description"} -> <<"U", "n", "k", "n", "o", "w", "n">>
      [] key \in {"view_count", "like_count", "duration"} -> 0
      [] key \in {"thumbnails", "comments"} -> << >>

\* The same with the empty text for a missing description.
AmendedDefault(key) == IF key = "description" THEN << >> ELSE ClaimedDefault(key)

\* C10 as stated: every field missing from the library's result takes its
\* default, "Unknown" for title, uploader, upload_date and description, 0 for
\* view_count, like_count and duration, the empty list for thumbnails and comments.
C10_DefaultsAsClaimed ==
    (call.fn = "video_data" /\ ret.done) =>
        \A key \in InfoKeys \ DOMAIN call.info : ret.value[key] = ClaimedDefault(key)

\* C10, amended: every field missing from the library's result takes its
\* default, "Unknown" for title, uploader and upload_date, the empty text for
\* description, 0 for the three counts, the empty list for thumbnails and
\* comments; a field the library supplies is taken over as it is.
C10_DefaultsAmended ==
    (call.fn = "video_data" /\ ret.done) =>
        /\ \A key \in InfoKeys \ DOMAIN call.info : ret.value[key] = AmendedDefault(key)
        /\ \A key \in DOMAIN call.info : ret.value[key] = call.info[key]

C10_Witness ==
    /\ call.fn = "video_data"
    /\ ret.done
    /\ DOMAIN call.info = {"title"}
    /\ ret.value.description = << >>
    /\ ret.value.duration = 0

\* The percentages among the signals emitted by one call of the hook.
Percents(result) ==
    IF result.raises THEN {}
    ELSE {result.value[i].payload.percent :
              i \in {j \in 1..Len(result.value) : result.value[j].sig = "progress_percent"}}

\* C11: every percentage the video-download worker reports on its percentage
\* channel lies in 0..100, for every progress event of the library: byte counts,
\* a textual percentage only, and the end of the download.
C11_PercentInRange ==
    (call.fn = "progress_hook" /\ ret.done) => Percents(ret.value) \subseteq 0..100

\* Two of three bytes are reported as 66, the ratio cut to a whole number.
C11_Witness ==
    /\ call.fn = "progress_hook"
    /\ ret.done
    /\ DOMAIN call.d = {"status", "total_bytes", "downloaded_bytes"}
    /\ call.d["total_bytes"] = 3
    /\ call.d["downloaded_bytes"] = 2
    /\ Percents(ret.value) = {66}

\* The substrings of a tier, in the order they are listed.
ClaimedSubstrings(quality) ==
    CASE quality = "maxres"   -> <<<<"m", "a", "x", "r", "e", "s", "d", "e", "f", "a", "u", "l", "t">>, <<"m", "a", "x", "r", "e", "s">>>>
      [] quality = "high"     -> <<<<"h", "q", "d", "e", "f", "a", "u", "l", "t">>, <<"h", "i", "g", "h">>>>
      [] quality = "medium"   -> <<<<"m", "q", "d", "e", "f", "a", "u", "l", "t">>, <<"m", "e", "d", "i", "u", "m">>>>
      [] quality = "standard" -> <<<<"s", "d", "d", "e", "f", "a", "u", "l", "t">>, <<"s", "t", "a", "n", "d", "a", "r", "d">>>>
      [] quality = "default"  -> <<<<"d", "e", "f", "a", "u", "l", "t">>>>

\* A dimension of a candidate, an absent one counted as 0.
Dim(t, key) == IF key \in DOMAIN t THEN t[key] ELSE 0

\* Candidate i of the list ts comes before candidate j in descending order of
\* (width, height), candidates that tie staying in their input order.
Before(ts, i, j) ==
    \/ Dim(ts[i], "width") > Dim(ts[j], "width")
    \/ /\ Dim(ts[i], "width") = Dim(ts[j], "width")
       /\ Dim(ts[i], "height") > Dim(ts[j], "height")
    \/ /\ Dim(ts[i], "width") = Dim(ts[j], "width")
       /\ Dim(ts[i], "height") = Dim(ts[j], "height")
       /\ i < j

\* The first of the candidates I of ts in that order.
FirstOf(ts, I) == CHOOSE i \in I : \A j \in I \ {i} : Before(ts, i, j)

\* The candidates of ts whose identifier contains sub, whatever the case.
Matching(ts, sub) ==
    {i \in 1..Len(ts) : "id" \in DOMAIN ts[i] /\ Contains(Lower(ts[i]["id"]), sub)}

\* The substrings of the tier that some candidate of ts matches.
Matched(ts, quality) ==
    {p \in 1..Len(ClaimedSubstrings(quality)) : Matching(ts, ClaimedSubstrings(quality)[p]) # {}}

\* C12: if the identifier of any candidate contains, whatever the case, a
\* substring of the requested tier's list, the selection returns the url of the
\* first candidate, in descending order of (width, height) with ties in input
\* order, that matches the earliest-listed substring with any match; the
\* candidates 1920 maxresdefault and 640 mqdefault with tier maxres give the
\* url of the first.
C12_IdentifierStep ==
    (call.fn = "select_thumbnail_by_quality" /\ ret.done) =>
        /\ Matched(call.thumbnails, call.quality) # {} =>
               LET sub == ClaimedSubstrings(call.quality)[Min(Matched(call.thumbnails, call.quality))]
               IN  ret.value = call.thumbnails[FirstOf(call.thumbnails, Matching(call.thumbnails, sub))].url
        /\ (call.thumbnails \in {<<T1, T2>>, <<T2, T1>>} /\ call.quality = "maxres") =>
               ret.value = T1.url

\* The larger candidate matches the second substring of the tier and the one
\* without dimensions the first: the one matching the first substring is chosen.
C12_Witness ==
    /\ call.fn = "select_thumbnail_by_quality"
    /\ ret.done
    /\ call.quality = "high"
    /\ call.thumbnails = <<T9, T3, T4>>
    /\ ret.value = T4.url

\* The width rule of a tier; the default tier has none.
ClaimedRule(quality, width) ==
    CASE quality = "maxres"   -> TRUE
      [] quality = "high"     -> width >= 1280
      [] quality = "medium"   -> 640 <= width /\ width < 1280
      [] quality = "standard" -> 480 <= width /\ width < 640
      [] quality = "default"  -> FALSE

\* The candidates of ts that satisfy the width rule of the tier.
Fitting(ts, quality) == {i \in 1..Len(ts) : ClaimedRule(quality, Dim(ts[i], "width"))}

\* C13: when no identifier matches the tier's substrings and the list is not
\* empty, the selection returns the url of the first candidate, in descending
\* order of (width, height), that satisfies the tier's width rule, and when no
\* candidate satisfies it, or the tier is default, of the highest-resolution
\* candidate.
C13_ResolutionFallback ==
    (/\ call.fn = "select_thumbnail_by_quality"
     /\ ret.done
     /\ Matched(call.thumbnails, call.quality) = {}
     /\ call.thumbnails # << >>) =>
        LET ts  == call.thumbnails
            fit == Fitting(ts, call.quality)
        IN  ret.value = ts[FirstOf(ts, IF fit # {} THEN fit ELSE 1..Len(ts))].url

\* The widest candidate is too wide for the medium tier: the next one is chosen.
C13_Witness ==
    /\ call.fn = "select_thumbnail_by_quality"
    /\ ret.done
    /\ call.quality = "medium"
    /\ call.thumbnails = <<T5, T3, T8>>
    /\ ret.value = T8.url

\* The video workers that have built their download options.
Configured == {w \in WorkersOf("video") : w.pc # "start"}

NumericHeights == {"1080", "720", "480", "360"}

\* The transcoding directive: the audio track as MP3 at the given bitrate.
Transcode(bitrate) ==
    <<[key |-> "FFmpegExtractAudio", preferredcodec |-> "mp3", preferredquality |-> bitrate]>>

\* C14: in the options of a media download, a numeric height affects only the
\* video branch: for audio, every numeric height gives the format selector and
\* the transcoding directive of quality best with audio (the best audio track,
\* MP3 at the same bitrate); for video, the selector carries the height as a
\* ceiling; no video request carries a transcoding directive and every audio
\* request carries one.
C14_HeightOnlyForVideo ==
    \A w \in Configured :
        /\ (w.format_type = "audio" /\ w.quality \in NumericHeights \cup {"best"}) =>
               /\ w.ydl_opts["format"] = <<"b", "e", "s", "t", "a", "u", "d", "i", "o", "[", "e", "x", "t", "=", "m", "4", "a", "]", "/", "b", "e", "s", "t", "a", "u", "d", "i", "o">>
               /\ w.ydl_opts["postprocessors"] = Transcode("192")
        /\ (w.format_type = "video" /\ w.quality \in NumericHeights) =>
               /\ Contains(w.ydl_opts["format"], <<"[", "h", "e", "i", "g", "h", "t", "<", "=">> \o QualityText(w.quality) \o <<"]">>)
               /\ \A other \in NumericHeights \ {w.quality} :
                      ~Contains(w.ydl_opts["format"], <<"h", "e", "i", "g", "h", "t", "<", "=">> \o QualityText(other))
        /\ w.format_type = "video" => "postprocessors" \notin DOMAIN w.ydl_opts
        /\ w.format_type = "audio" =>
               /\ "postprocessors" \in DOMAIN w.ydl_opts
               /\ \E bitrate \in {"128", "192"} : w.ydl_opts["postprocessors"] = Transcode(bitrate)

\* An audio download at 720 has started with the options of best audio.
C14_Witness ==
    \E w \in Configured :
        /\ w.format_type = "audio"
        /\ w.quality = "720"
        /\ w.pc = "done"
        /\ w.ydl_opts["format"] = <<"b", "e", "s", "t", "a", "u", "d", "i", "o", "[", "e", "x", "t", "=", "m", "4", "a", "]", "/", "b", "e", "s", "t", "a", "u", "d", "i", "o">>

\* The thumbnail workers that have ended in a failure.
FailedThumb == {w \in WorkersOf("thumb") : w.pc = "done" /\ ~Head(w.outbox).ok}

\* C15: a thumbnail worker whose re-fetched metadata has no candidates ends with
\* the "no thumbnail found" failure as its only signal delivered, without having
\* started a transfer or written a file; and the message of a failure tells its
\* cause: the message of the empty list is given for the empty list only, that
\* of the empty selection for the empty selection only, and an extraction or a
\* transfer that raised gives a message different from both.
C15_FailureTellsCause ==
    /\ \A w \in WorkersOf("thumb") :
           (w.listed /\ w.thumbnails = << >>) =>
               /\ w.pc = "done"
               /\ ~w.requested
               /\ w.written = NoneRec
               /\ Len(w.outbox) = 1
               /\ ~Head(w.outbox).ok
               /\ Head(w.outbox).payload.text = NoThumbnailMessage
    /\ \A w \in FailedThumb :
           LET text == Head(w.outbox).payload.text
           IN  /\ (text = NoThumbnailMessage) <=> (w.exc = "" /\ w.listed /\ w.thumbnails = << >>)
               /\ (text = NoQualityMessage) <=>
                      (w.exc = "" /\ w.thumbnails # << >> /\ ~Truthy(w.thumbnail_url))
               /\ (text \notin {NoThumbnailMessage, NoQualityMessage}) <=> (w.exc # "")
               /\ w.written = NoneRec

\* The metadata fetched again for the download has no candidates.
C15_Witness ==
    \E w \in FailedThumb :
        /\ w.listed
        /\ w.thumbnails = << >>
        /\ ~w.requested
        /\ Head(w.outbox).payload.text = NoThumbnailMessage

\* The characters the claim lists.
ClaimedIllegal == {"<", ">", ":", "\"", "/", "\\", "|", "?", "*"}

\* C16: sanitizing a title replaces each character of the set < > : " / \ | ? *
\* by one underscore and leaves every other character as it is: the result has
\* the length of the title and none of those characters, and sanitizing it again
\* changes nothing; Test:Video/Name? becomes Test_Video_Name_.
C16_SanitizeReplacesEach ==
    (call.fn = "sanitize" /\ ret.done) =>
        /\ Len(ret.value) = Len(call.title)
        /\ \A i \in 1..Len(call.title) :
               ret.value[i] = IF call.title[i] \in ClaimedIllegal THEN "_" ELSE call.title[i]
        /\ Range(ret.value) \cap ClaimedIllegal = {}
        /\ Sanitize(ret.value) = ret.value
        /\ call.title = <<"T", "e", "s", "t", ":", "V", "i", "d", "e", "o", "/", "N", "a", "m", "e", "?">> => ret.value = <<"T", "e", "s", "t", "_", "V", "i", "d", "e", "o", "_", "N", "a", "m", "e", "_">>

C16_Witness ==
    /\ call.fn = "sanitize"
    /\ ret.done
    /\ call.title = <<"T", "e", "s", "t", ":", "V", "i", "d", "e", "o", "/", "N", "a", "m", "e", "?">>
    /\ ret.value = <<"T", "e", "s", "t", "_", "V", "i", "d", "e", "o", "_", "N", "a", "m", "e", "_">>

\* C17, in every state: the code-image control is enabled exactly when metadata
\* is held.
C17_QrEnabledIffHeld == qr_button <=> (video_data # NoneRec)

\* The step handles the terminal success of a metadata worker, whose record
\* becomes the held metadata.
FetchSucceeds ==
    \E i \in Active("info") :
        /\ Delivered(i, "info", "finished")
        /\ Head(workers[i].outbox).ok
        /\ workers' = Without(i)
        /\ video_data' = Head(workers[i].outbox).payload

\* The step starts a download worker.
StartsDownload ==
    /\ Len(workers') = Len(workers) + 1
    /\ workers'[Len(workers')].kind \in {"thumb", "video"}

\* The step saves a code image.
SavesCodeImage ==
    /\ Len(dialogs') = Len(dialogs) + 1
    /\ dialogs'[Len(dialogs')].text = "qr_saved"

\* C17, in every step: the held metadata changes only by the terminal success
\* of a metadata fetch; a download that starts and a code image that is saved
\* use the source URL of the metadata held; the code-image control, once
\* enabled, stays enabled.
C17_HeldUntilNextSuccess ==
    /\ video_data' # video_data => FetchSucceeds
    /\ StartsDownload => workers'[Len(workers')].url = video_data.url
    /\ SavesCodeImage => dialogs'[Len(dialogs')].data = video_data.url
    /\ qr_button => qr_button'

\* C17: the held metadata changes only when a metadata fetch delivers terminal
\* success; a failed fetch, a rejected fetch and every download leave it as it
\* is, so later downloads and code images use the metadata (and source URL) of
\* the last successful fetch; the code-image control, once enabled, is never
\* disabled, and it is enabled exactly when metadata is held.
C17_MetadataFrame == []C17_QrEnabledIffHeld /\ [][C17_HeldUntilNextSuccess]_vars

\* A fetch made after a successful one has failed and its failure has been
\* handled; the metadata of the earlier fetch is held, the code-image control is
\* enabled, and a thumbnail download started from that metadata is under way.
C17_Witness ==
    /\ dialogs # << >>
    /\ dialogs[Len(dialogs)] = Box("critical", "info_failed")
    /\ video_data # NoneRec
    /\ qr_button
    /\ \E w \in WorkersOf("thumb") : w.url = video_data.url

====
